---------------------------- MODULE Spec2Model ----------------------------
(***************************************************************************)
(* A model of the fastly-promise client (lib/fastlyPromise.js): the        *)
(* constructor, the generic request() primitive and the promise chains of  *)
(* the convenience operations built on it.  A URL is a TLA+ string, a      *)
(* JavaScript value is a record tagged with its typeof, a JavaScript       *)
(* object is a function from its property names to values.  The HTTP       *)
(* transport (request-promise) and the Fastly server are the environment:  *)
(* every request that is sent is recorded, and any response of Responses   *)
(* may come back.                                                          *)
(***************************************************************************)
EXTENDS Naturals, Sequences, FiniteSets, TLC

VARIABLES
  ctor,         \* "none" before construction, then "constructed" or "threw"
  client,       \* the FastlyPromise object: [apiKey, endpoint], or NoClient
  pc,           \* per call: the promise continuation that runs next
  call,         \* per call: the public operation invoked and its arguments
  sent,         \* per call: the requests handed to the transport, in order
  outstanding,  \* per call: requests handed to the transport and not answered
  answers,      \* per call: what the transport settled its requests with, in order
  result        \* per call: the state of the promise returned to the caller

vars == <<ctor, client, pc, call, sent, outstanding, answers, result>>

\* The calls a caller can have in progress on the one client.  Spec runs a
\* single operation, call 1, from its invocation to the settling of its promise.
Calls == {1, 2}

-----------------------------------------------------------------------------
(* JavaScript values *)

Undefined == [type |-> "undefined"]
Str(s) == [type |-> "string", val |-> s]
Bool(b) == [type |-> "boolean", val |-> b]
Num(n) == [type |-> "number", val |-> n]
Obj(f) == [type |-> "object", val |-> f]
Arr(s) == [type |-> "array", val |-> s]
Err(name, message) == [type |-> "error", name |-> name, message |-> message]
StatusCodeError(code) ==
  [type |-> "error", name |-> "StatusCodeError", statusCode |-> code]
RequestError == [type |-> "error", name |-> "RequestError"]

EmptyMap == [k \in {} |-> Undefined]

\* o[k] of JavaScript: undefined for a property the object does not have.
Get(o, k) ==
  IF o.type \in {"object"} /\ k \in DOMAIN o.val THEN o.val[k] ELSE Undefined

\* ToBoolean of JavaScript.
Truthy(v) ==
  CASE v.type = "undefined" -> FALSE
    [] v.type = "boolean" -> v.val
    [] v.type = "string" -> v.val # ""
    [] v.type = "number" -> v.val # 0
    [] OTHER -> TRUE

Digits == <<"0", "1", "2", "3", "4", "5", "6", "7", "8", "9">>

\* ToString of JavaScript, as string concatenation with + applies it.
JsToString(v) ==
  CASE v.type = "undefined" -> "undefined"
    [] v.type = "string" -> v.val
    [] v.type = "boolean" -> IF v.val THEN "true" ELSE "false"
    [] v.type = "number" -> Digits[v.val + 1]
    [] OTHER -> "[object Object]"

\* ramda.merge(a, b): a shallow merge, the properties of b win.
merge(a, b) ==
  [k \in DOMAIN a \cup DOMAIN b |-> IF k \in DOMAIN b THEN b[k] ELSE a[k]]

\* delete o[k]
Delete(o, k) == [j \in DOMAIN o \ {k} |-> o[j]]

Min(a, b) == IF a < b THEN a ELSE b

\* s.substring(0, n)
Substring0(s, n) == SubSeq(s, 1, Min(n, Len(s)))

\* The test with the http alternative left out of the pattern.
AbsoluteUrlRegexTestHttpsOnly(url) ==
  Substring0(url, Len("https://")) = "https://"

\* /^((http|https):\/\/)/.test(url)
AbsoluteUrlRegexTest(url) ==
  \E scheme \in {"http", "https"} :
    Substring0(url, Len(scheme) + 3) = scheme \o "://"

-----------------------------------------------------------------------------
(* The constructor *)

\* new FastlyPromise(apiKey): the body below the instanceof test.
FastlyPromiseNew(apiKey) ==
  [threw |-> FALSE,
   value |-> [apiKey |-> apiKey, endpoint |-> "https://api.fastly.com"]]

\* FastlyPromise(apiKey), called with new (withNew) or as a plain function.
FastlyPromise(withNew, apiKey) ==
  IF ~withNew
    THEN IF ~Truthy(apiKey)
           THEN [threw |-> TRUE, error |-> Err("Error", "Missing API key parameter.")]
           ELSE FastlyPromiseNew(apiKey)
    ELSE FastlyPromiseNew(apiKey)

-----------------------------------------------------------------------------
(* request(): from its arguments to the options handed to request-promise *)

\* The validation testing url against undefined only, so that '' passes.
MissingRequestParametersUndefinedOnly(method, url) ==
  ~Truthy(method) \/ url.type = "undefined"

\* if (!method || !url) throw ...
MissingRequestParameters(method, url) == ~Truthy(method) \/ ~Truthy(url)

\* Point relative urls to fastly endpoint.
ResolveUrl(cl, url) ==
  IF ~AbsoluteUrlRegexTest(url) THEN cl.endpoint \o url ELSE url

\* options = options || {}
DefaultOptions(options) == IF Truthy(options) THEN options ELSE Obj(EmptyMap)

\* The default of options.softPurge set the wrong way round.
SoftPurgeOptionDefaultTrue(options) ==
  IF Get(options, "softPurge").type = "undefined"
    THEN Bool(TRUE)
    ELSE Get(options, "softPurge")

\* options.softPurge after its default is set.
SoftPurgeOption(options) ==
  IF Get(options, "softPurge").type = "undefined"
    THEN Bool(FALSE)
    ELSE Get(options, "softPurge")

\* if (options.softPurge){ headers['Fastly-Soft-Purge'] = 1; }
SoftPurgeHeader(headers, options) ==
  IF Truthy(SoftPurgeOption(options))
    THEN merge(headers, "Fastly-Soft-Purge" :> Num(1))
    ELSE headers

\* The merge with its arguments swapped: the computed headers win.
CallerHeadersComputedWin(headers, options) ==
  IF Truthy(Get(options, "headers"))
    THEN merge(Get(options, "headers").val, headers)
    ELSE headers

\* if (options.headers) { headers = ramda.merge(headers, options.headers); }
CallerHeaders(headers, options) ==
  IF Truthy(Get(options, "headers"))
    THEN merge(headers, Get(options, "headers").val)
    ELSE headers

\* Strip API key header if request is not pointed to fastly endpoint.
StripApiKey(cl, url, headers) ==
  IF Substring0(url, Len(cl.endpoint)) # cl.endpoint
    THEN Delete(headers, "Fastly-Key")
    ELSE headers

\* The header mapping with the API key stripped before the caller's headers
\* are merged in.
BuildHeadersStripFirst(cl, url, options) ==
  CallerHeaders(
    StripApiKey(cl, url, SoftPurgeHeader("Fastly-Key" :> cl.apiKey, options)),
    options)

\* The header mapping of request().
BuildHeaders(cl, url, options) ==
  StripApiKey(cl, url,
    CallerHeaders(SoftPurgeHeader("Fastly-Key" :> cl.apiKey, options), options))

\* Attach form payload if exists.
AttachForm(rpo, options) ==
  IF Truthy(Get(options, "form"))
    THEN merge(rpo, "form" :> Get(options, "form"))
    ELSE rpo

\* Set/Overwrite requestPromiseOptions.
OverwriteOptions(rpo, options) ==
  IF Truthy(Get(options, "requestPromiseOptions"))
    THEN merge(rpo, Get(options, "requestPromiseOptions").val)
    ELSE rpo

\* The object request() passes to requestP(), for parameters that passed the
\* validation.
requestPromiseOptions(cl, method, url, options) ==
  LET resolved == ResolveUrl(cl, url.val)
      opts == DefaultOptions(options)
      computed == [method |-> method,
                   uri |-> Str(resolved),
                   headers |-> Obj(BuildHeaders(cl, resolved, opts)),
                   resolveWithFullResponse |-> Bool(TRUE)]
  IN  Obj(OverwriteOptions(AttachForm(computed, opts), opts))

-----------------------------------------------------------------------------
(* The transport and the response handler of request() *)

VclJson == "{\"name\":\"test\",\"main\":true}"
VersionsJson == "[{\"number\":1,\"active\":false},{\"number\":2,\"active\":true}]"
NoActiveJson == "[{\"number\":1,\"active\":false}]"
VclText == "sub vcl_recv { }"
BadJson == "{\"name\":"
TwoActiveJson == "[{\"number\":4,\"active\":true},{\"number\":5,\"active\":true}]"
EmptyListJson == "[]"

\* JSON.parse on the bodies the modelled server sends; JsonTexts are the
\* bodies it accepts.
JsonTexts == {VclJson, VersionsJson, NoActiveJson, TwoActiveJson, EmptyListJson}

JSONParse(body) ==
  CASE body = VclJson ->
         Obj([name |-> Str("test"), main |-> Bool(TRUE)])
    [] body = VersionsJson ->
         Arr(<<Obj([number |-> Num(1), active |-> Bool(FALSE)]),
               Obj([number |-> Num(2), active |-> Bool(TRUE)])>>)
    [] body = NoActiveJson ->
         Arr(<<Obj([number |-> Num(1), active |-> Bool(FALSE)])>>)
    [] body = TwoActiveJson ->
         Arr(<<Obj([number |-> Num(4), active |-> Bool(TRUE)]),
               Obj([number |-> Num(5), active |-> Bool(TRUE)])>>)
    [] body = EmptyListJson -> Arr(<<>>)

\* A 2xx answer, as request-promise resolves it with resolveWithFullResponse.
Response(contentType, body) ==
  [ok |-> TRUE, statusCode |-> 200,
   headers |-> IF contentType = "" THEN EmptyMap
               ELSE [k \in {"content-type"} |-> Str(contentType)],
   body |-> body]

\* What the transport can settle a request with: a 2xx response, a
\* StatusCodeError for a non-2xx status, a RequestError for a network failure.
Responses ==
  { Response("application/json", VclJson),
    Response("application/json", VersionsJson),
    Response("application/json", NoActiveJson),
    Response("application/json", TwoActiveJson),
    Response("application/json", EmptyListJson),
    Response("application/json", BadJson),
    Response("application/json; charset=utf-8", VclJson),
    Response("text/plain", VclText),
    Response("", VclText) }
  \cup { [ok |-> FALSE, error |-> StatusCodeError(404)],
         [ok |-> FALSE, error |-> StatusCodeError(500)],
         [ok |-> FALSE, error |-> RequestError] }

Fulfilled(v) == [state |-> "fulfilled", value |-> v]
Rejected(e) == [state |-> "rejected", reason |-> e]
Threw(e) == [state |-> "threw", reason |-> e]
Pending == [state |-> "pending"]
NotCalled == [state |-> "none"]

\* The response handler with a prefix test in place of the equality: a
\* content type with a parameter is decoded as JSON too.
requestThenJsonPrefix(r) ==
  IF ~r.ok
    THEN Rejected(r.error)
    ELSE IF /\ Get(Obj(r.headers), "content-type").type = "string"
            /\ Substring0(Get(Obj(r.headers), "content-type").val, 16) = "application/json"
           THEN IF r.body \in JsonTexts
                  THEN Fulfilled(JSONParse(r.body))
                  ELSE Rejected(Err("SyntaxError", "Unexpected end of JSON input"))
           ELSE Fulfilled(Str(r.body))

\* The response handler with a catch that replaces the error of the transport.
requestThenNewError(r) ==
  IF ~r.ok
    THEN Rejected(Err("Error", "Request failed."))
    ELSE IF Get(Obj(r.headers), "content-type") = Str("application/json")
           THEN IF r.body \in JsonTexts
                  THEN Fulfilled(JSONParse(r.body))
                  ELSE Rejected(Err("SyntaxError", "Unexpected end of JSON input"))
           ELSE Fulfilled(Str(r.body))

\* The promise request() returns, once the transport has settled with r:
\* (content-type == 'application/json') ? JSON.parse(body) : body
requestThen(r) ==
  IF ~r.ok
    THEN Rejected(r.error)
    ELSE IF Get(Obj(r.headers), "content-type") = Str("application/json")
           THEN IF r.body \in JsonTexts
                  THEN Fulfilled(JSONParse(r.body))
                  ELSE Rejected(Err("SyntaxError", "Unexpected end of JSON input"))
           ELSE Fulfilled(Str(r.body))

-----------------------------------------------------------------------------
(* The arguments the callers of the model pass *)

ApiKeys == {Undefined, Str(""), Str("KEY")}

Methods == {Undefined, Str(""), Str("GET")}

Urls ==
  { Undefined, Str(""),
    Str("/service/s1/version"),
    Str("https://api.fastly.com/service/s1/version"),
    Str("http://api.fastly.com/service/s1/version"),
    Str("https://a.io/x"),
    Str("https://api.fastly.com.a.io/x") }

SoftPurges == {Undefined, Bool(FALSE), Bool(TRUE)}

HeaderOptions ==
  { Undefined,
    Obj("Fastly-Key" :> Str("caller")),
    Obj("Fastly-Soft-Purge" :> Str("0")),
    Obj("X-Tag" :> Str("t")) }

FormOptions == {Undefined, Obj([name |-> Str("test")])}

TransportOptions ==
  { Undefined,
    Obj([headers |-> Obj(EmptyMap)]),
    Obj([headers |-> Obj("Fastly-Key" :> Str("caller"))]),
    Obj([method |-> Str("HEAD"), uri |-> Str("https://a.io/y"),
         form |-> Obj([q |-> Str("1")])]) }

Options ==
  {Undefined} \cup
  { Obj([softPurge |-> sp, headers |-> h, form |-> f, requestPromiseOptions |-> t]) :
      sp \in SoftPurges, h \in HeaderOptions, f \in FormOptions,
      t \in TransportOptions }

ServiceIds == {Str("s1")}
VersionNumbers == {Undefined, Num(0), Num(3)}
SurrogateKeys == {Str("k1")}
VclNames == {Str("test")}
VclContents == {Str(VclText)}
Flags == {Undefined, Bool(FALSE), Bool(TRUE)}

-----------------------------------------------------------------------------
(* State *)

NoClient == [apiKey |-> Undefined, endpoint |-> ""]
NoCall == [op |-> "none", args |-> <<>>]

Init ==
  /\ ctor = "none"
  /\ client = NoClient
  /\ pc = [c \in Calls |-> "idle"]
  /\ call = [c \in Calls |-> NoCall]
  /\ sent = [c \in Calls |-> <<>>]
  /\ outstanding = [c \in Calls |-> 0]
  /\ answers = [c \in Calls |-> <<>>]
  /\ result = [c \in Calls |-> NotCalled]

\* The caller invokes operation op with args on the constructed client.
Invoke(c, op, args) ==
  /\ ctor = "constructed"
  /\ pc[c] = "idle"
  /\ call' = [call EXCEPT ![c] = [op |-> op, args |-> args]]

\* The invoked operation hands its first request to the transport and returns
\* a pending promise; label is the continuation attached to the request.
Fire(c, rpo, label) ==
  /\ sent' = [sent EXCEPT ![c] = Append(@, rpo)]
  /\ outstanding' = [outstanding EXCEPT ![c] = @ + 1]
  /\ pc' = [pc EXCEPT ![c] = label]
  /\ result' = [result EXCEPT ![c] = Pending]
  /\ UNCHANGED answers

\* The transport settles the outstanding request of call c, whose
\* continuation is label.
Answered(c, label) ==
  /\ pc[c] = label
  /\ outstanding[c] > 0

\* The continuation of the request answered with r hands the next request to
\* the transport.
Chain(c, r, rpo, label) ==
  /\ answers' = [answers EXCEPT ![c] = Append(@, r)]
  /\ sent' = [sent EXCEPT ![c] = Append(@, rpo)]
  /\ outstanding' = [outstanding EXCEPT ![c] = (@ - 1) + 1]
  /\ pc' = [pc EXCEPT ![c] = label]
  /\ UNCHANGED <<call, result>>

\* The continuation of the request answered with r settles the promise the
\* caller holds.
Finish(c, r, outcome) ==
  /\ answers' = [answers EXCEPT ![c] = Append(@, r)]
  /\ outstanding' = [outstanding EXCEPT ![c] = @ - 1]
  /\ result' = [result EXCEPT ![c] = outcome]
  /\ pc' = [pc EXCEPT ![c] = "done"]
  /\ UNCHANGED <<call, sent>>

-----------------------------------------------------------------------------
(* Construction and request() *)

\* FastlyPromise(apiKey) or new FastlyPromise(apiKey)
Construct(withNew, apiKey) ==
  /\ ctor = "none"
  /\ LET made == FastlyPromise(withNew, apiKey)
     IN  IF made.threw
           THEN ctor' = "threw" /\ client' = client
           ELSE ctor' = "constructed" /\ client' = made.value
  /\ UNCHANGED <<pc, call, sent, outstanding, answers, result>>

\* fastly.request(method, url, options), up to requestP(...)
request(c, method, url, options) ==
  /\ Invoke(c, "request", <<method, url, options>>)
  /\ IF MissingRequestParameters(method, url)
       THEN /\ result' = [result EXCEPT ![c] =
                 Threw(Err("Error", "Missing required request parameters."))]
            /\ pc' = [pc EXCEPT ![c] = "done"]
            /\ UNCHANGED <<sent, outstanding, answers>>
       ELSE Fire(c, requestPromiseOptions(client, method, url, options), "request.then")
  /\ UNCHANGED <<ctor, client>>

\* The .then of request(), for a call of request() whose promise is the one
\* the caller holds: request() itself, purge(), purgeKey().
requestSettled(c, r) ==
  /\ Answered(c, "request.then")
  /\ Finish(c, r, requestThen(r))
  /\ UNCHANGED <<ctor, client>>

-----------------------------------------------------------------------------
(* Purging *)

\* this.request(method, url) of a convenience method, with options or without.
Convenience(cl, method, url, options) ==
  requestPromiseOptions(cl, Str(method), Str(url), options)

\* softPurge = (typeof softPurge == 'undefined') ? false : softPurge
SoftPurgeArgument(softPurge) ==
  IF softPurge.type = "undefined" THEN Bool(FALSE) ELSE softPurge

\* purge(url, softPurge)
purge(c, url, softPurge) ==
  /\ Invoke(c, "purge", <<url, softPurge>>)
  /\ IF ~AbsoluteUrlRegexTest(JsToString(url))
       THEN /\ result' = [result EXCEPT ![c] =
                 Threw(Err("Error", "Standard purge requests should be absolute urls."))]
            /\ pc' = [pc EXCEPT ![c] = "done"]
            /\ UNCHANGED <<sent, outstanding, answers>>
       ELSE Fire(c, Convenience(client, "PURGE", url.val,
                      Obj([softPurge |-> SoftPurgeArgument(softPurge)])),
                 "request.then")
  /\ UNCHANGED <<ctor, client>>

\* purgeKey(serviceId, surrogateKey, softPurge)
purgeKey(c, serviceId, surrogateKey, softPurge) ==
  /\ Invoke(c, "purgeKey", <<serviceId, surrogateKey, softPurge>>)
  /\ Fire(c, Convenience(client, "POST",
               client.endpoint \o "/service/" \o JsToString(serviceId) \o "/purge/"
                 \o JsToString(surrogateKey),
               Obj([softPurge |-> SoftPurgeArgument(softPurge)])),
          "request.then")
  /\ UNCHANGED <<ctor, client>>

-----------------------------------------------------------------------------
(* The convenience operations of the VCL upload chain *)

VersionUrl(cl, serviceId, n) ==
  cl.endpoint \o "/service/" \o JsToString(serviceId) \o "/version/" \o JsToString(n)

\* getConfigVersions(serviceId)
getConfigVersions(cl, serviceId) ==
  Convenience(cl, "GET",
    cl.endpoint \o "/service/" \o JsToString(serviceId) \o "/version", Undefined)

\* getActiveConfigVersion with a scan that keeps the last match.
getActiveConfigVersionThenLast(outcome) ==
  IF outcome.state = "rejected"
    THEN outcome
    ELSE IF outcome.value.type # "array"
           THEN Rejected(Err("TypeError", "configVersions.find is not a function"))
           ELSE LET list == outcome.value.val
                    hits == {i \in 1..Len(list) : Truthy(Get(list[i], "active"))}
                IN  IF hits = {}
                      THEN Fulfilled(Undefined)
                      ELSE Fulfilled(list[CHOOSE i \in hits : \A j \in hits : j <= i])

\* configVersions.find(function(configVersion){ return configVersion.active; })
getActiveConfigVersionThen(outcome) ==
  IF outcome.state = "rejected"
    THEN outcome
    ELSE IF outcome.value.type # "array"
           THEN Rejected(Err("TypeError", "configVersions.find is not a function"))
           ELSE LET list == outcome.value.val
                    hits == {i \in 1..Len(list) : Truthy(Get(list[i], "active"))}
                IN  IF hits = {}
                      THEN Fulfilled(Undefined)
                      ELSE Fulfilled(list[CHOOSE i \in hits : \A j \in hits : i <= j])

\* The number of the active version read with a guard, version && version.number:
\* no active version gives undefined in place of a TypeError.
versionNumberThenGuarded(outcome) ==
  IF outcome.state = "rejected"
    THEN outcome
    ELSE IF outcome.value.type = "undefined"
           THEN Fulfilled(Undefined)
           ELSE Fulfilled(Get(outcome.value, "number"))

\* .then(function(version){ return version.number })
versionNumberThen(outcome) ==
  IF outcome.state = "rejected"
    THEN outcome
    ELSE IF outcome.value.type = "undefined"
           THEN Rejected(Err("TypeError", "Cannot read property 'number' of undefined"))
           ELSE Fulfilled(Get(outcome.value, "number"))

\* getVcl(serviceId, configVersionNumber, vclName)
getVcl(cl, serviceId, n, vclName) ==
  Convenience(cl, "GET",
    VersionUrl(cl, serviceId, n) \o "/vcl/" \o JsToString(vclName), Undefined)

\* The request the .then of setMainVcl issues for the resolved version number.
setMainVclRequest(cl, serviceId, vclName, n) ==
  Convenience(cl, "PUT",
    VersionUrl(cl, serviceId, n) \o "/vcl/" \o JsToString(vclName) \o "/main",
    Undefined)

\* The upload request of uploadNewVcl.
uploadRequest(cl, serviceId, n, vclName, vclContent) ==
  Convenience(cl, "POST", VersionUrl(cl, serviceId, n) \o "/vcl",
    Obj([form |-> Obj([name |-> vclName, content |-> vclContent])]))

\* validNamePromise with the status test left out of the catch: any failed
\* lookup means the name is free.
validNameAnyError(outcome) == outcome.state # "fulfilled"

\* validNamePromise with the value of the success branch flipped.
validNameOnSuccess(outcome) ==
  IF outcome.state = "fulfilled"
    THEN TRUE
    ELSE "statusCode" \in DOMAIN outcome.reason /\ outcome.reason.statusCode = 404

\* validNamePromise of uploadNewVcl, from the outcome of its getVcl.
validName(outcome) ==
  IF outcome.state = "fulfilled"
    THEN FALSE
    ELSE "statusCode" \in DOMAIN outcome.reason /\ outcome.reason.statusCode = 404

\* setMainVcl called from a continuation, looking the active version up even
\* when a config version number is given.
setMainVclChainAlwaysLookup(c, r, serviceId, vclName, n) ==
  Chain(c, r, getConfigVersions(client, serviceId), "setMainVcl.version")

\* setMainVcl(serviceId, vclName, configVersionNumber) called from a
\* continuation: the default of the version number, then the PUT.
setMainVclChain(c, r, serviceId, vclName, n) ==
  IF Truthy(n)
    THEN Chain(c, r, setMainVclRequest(client, serviceId, vclName, n), "setMainVcl.put")
    ELSE Chain(c, r, getConfigVersions(client, serviceId), "setMainVcl.version")

\* The serviceId and vclName of the setMainVcl that call c is running: its own
\* arguments, or those uploadNewVcl and updateVcl pass on.
setMainVclArgs(c) ==
  IF call[c].op = "setMainVcl"
    THEN [serviceId |-> call[c].args[1], vclName |-> call[c].args[2]]
    ELSE [serviceId |-> call[c].args[1], vclName |-> call[c].args[3]]

\* uploadNewVcl(serviceId, configVersionNumber, vclName, vclContent, setVclToMain)
uploadNewVcl(c, serviceId, n, vclName, vclContent, setVclToMain) ==
  /\ Invoke(c, "uploadNewVcl", <<serviceId, n, vclName, vclContent, setVclToMain>>)
  /\ Fire(c, getVcl(client, serviceId, n, vclName), "uploadNewVcl.validName")
  /\ UNCHANGED <<ctor, client>>

\* getVcl is answered: validNamePromise settles and its .then runs.
uploadNewVclValidName(c, r) ==
  /\ Answered(c, "uploadNewVcl.validName")
  /\ LET a == call[c].args
     IN  IF ~validName(requestThen(r))
           THEN Finish(c, r, Rejected(Err("Error",
                  "Error: " \o JsToString(a[3]) \o " VCL file already exists.")))
           ELSE Chain(c, r, uploadRequest(client, a[1], a[2], a[3], a[4]),
                  "uploadNewVcl.upload")
  /\ UNCHANGED <<ctor, client>>

\* The upload POST is answered: the last .then of uploadNewVcl runs.
uploadNewVclUploaded(c, r) ==
  /\ Answered(c, "uploadNewVcl.upload")
  /\ LET a == call[c].args
         vclResponse == requestThen(r)
     IN  IF vclResponse.state = "rejected"
           THEN Finish(c, r, vclResponse)
           ELSE IF Truthy(a[5])
                  THEN setMainVclChain(c, r, a[1], a[3], a[2])
                  ELSE Finish(c, r, vclResponse)
  /\ UNCHANGED <<ctor, client>>

\* The version list asked for by setMainVcl is answered.
setMainVclVersion(c, r) ==
  /\ Answered(c, "setMainVcl.version")
  /\ LET number == versionNumberThen(getActiveConfigVersionThen(requestThen(r)))
         a == setMainVclArgs(c)
     IN  IF number.state = "rejected"
           THEN Finish(c, r, number)
           ELSE Chain(c, r, setMainVclRequest(client, a.serviceId, a.vclName, number.value),
                  "setMainVcl.put")
  /\ UNCHANGED <<ctor, client>>

\* The PUT of setMainVcl with a catch that undoes the content request: a failed
\* PUT is followed by the DELETE of the VCL file.
setMainVclSettledRollsBack(c, r) ==
  /\ Answered(c, "setMainVcl.put")
  /\ IF ~r.ok
       THEN LET main == Get(sent[c][Len(sent[c])], "uri").val
            IN  Chain(c, r,
                  Convenience(client, "DELETE", Substring0(main, Len(main) - 5), Undefined),
                  "request.then")
       ELSE Finish(c, r, requestThen(r))
  /\ UNCHANGED <<ctor, client>>

\* The PUT of setMainVcl is answered.
setMainVclSettled(c, r) ==
  /\ Answered(c, "setMainVcl.put")
  /\ Finish(c, r, requestThen(r))
  /\ UNCHANGED <<ctor, client>>

-----------------------------------------------------------------------------
(* The operations that are one call of request() *)

SingleRequestOperations ==
  { "purgeAll", "getConfigVersions", "getConfigVersion", "updateConfigVersion",
    "validateConfigVersion", "createConfigVersion", "activateConfigVersion",
    "deactivateConfigVersion", "lockConfigVersion", "getBoilerplateVcl",
    "getAllVcl", "getVcl" }

\* getAllVcl(serviceId, configVersionNumber)
getAllVcl(cl, serviceId, n) ==
  Convenience(cl, "GET", VersionUrl(cl, serviceId, n) \o "/vcl", Undefined)

\* The arguments operation op takes, of a service id, a config version number,
\* a VCL name and the three flags of updateConfigVersion.
singleRequestArgs(op, serviceId, n, vclName, flag) ==
  CASE op \in {"purgeAll", "getConfigVersions", "createConfigVersion"} ->
         <<serviceId>>
    [] op = "getVcl" -> <<serviceId, n, vclName>>
    [] op = "updateConfigVersion" -> <<serviceId, n, flag, flag, flag>>
    [] OTHER -> <<serviceId, n>>

\* return this.request(VERB, this.endpoint + path) of operation op
singleRequest(cl, op, args) ==
  LET service == cl.endpoint \o "/service/" \o JsToString(args[1])
  IN  CASE op = "purgeAll" ->
             Convenience(cl, "POST", service \o "/purge_all", Undefined)
        [] op = "getConfigVersions" -> getConfigVersions(cl, args[1])
        [] op = "createConfigVersion" ->
             Convenience(cl, "POST", service \o "/version", Undefined)
        [] op = "getConfigVersion" ->
             Convenience(cl, "GET", VersionUrl(cl, args[1], args[2]), Undefined)
        [] op = "updateConfigVersion" ->
             Convenience(cl, "PUT", VersionUrl(cl, args[1], args[2]),
               Obj([form |-> Obj([deployed |-> args[3], staging |-> args[4],
                                  testing |-> args[5]])]))
        [] op = "validateConfigVersion" ->
             Convenience(cl, "GET", VersionUrl(cl, args[1], args[2]) \o "/validate",
               Undefined)
        [] op = "activateConfigVersion" ->
             Convenience(cl, "PUT", VersionUrl(cl, args[1], args[2]) \o "/activate",
               Undefined)
        [] op = "deactivateConfigVersion" ->
             Convenience(cl, "PUT", VersionUrl(cl, args[1], args[2]) \o "/deactivate",
               Undefined)
        [] op = "lockConfigVersion" ->
             Convenience(cl, "PUT", VersionUrl(cl, args[1], args[2]) \o "/lock",
               Undefined)
        [] op = "getBoilerplateVcl" ->
             Convenience(cl, "GET", VersionUrl(cl, args[1], args[2]) \o "/boilerplate",
               Undefined)
        [] op = "getAllVcl" -> getAllVcl(cl, args[1], args[2])
        [] op = "getVcl" -> getVcl(cl, args[1], args[2], args[3])

\* One of the operations that return the promise of one call of request().
singleRequestOperation(c, op, args) ==
  /\ Invoke(c, op, args)
  /\ Fire(c, singleRequest(client, op, args), "request.then")
  /\ UNCHANGED <<ctor, client>>

UnimplementedOperations ==
  {"getVclHtml", "getVclText", "getGeneratedVcl", "getGeneratedVclHtml"}

\* getVclHtml, getVclText, getGeneratedVcl, getGeneratedVclHtml
unimplementedEndpoint(c, op) ==
  /\ Invoke(c, op, <<>>)
  /\ result' = [result EXCEPT ![c] = Threw(Err("Error",
       "Sorry, the convenience method for this API endpoint is not supported by this client yet. Please use FastlyPromise.request() directly to use this endpoint."))]
  /\ pc' = [pc EXCEPT ![c] = "done"]
  /\ UNCHANGED <<ctor, client, sent, outstanding, answers>>

\* getActiveConfigVersion(serviceId)
getActiveConfigVersion(c, serviceId) ==
  /\ Invoke(c, "getActiveConfigVersion", <<serviceId>>)
  /\ Fire(c, getConfigVersions(client, serviceId), "getActiveConfigVersion.then")
  /\ UNCHANGED <<ctor, client>>

\* The version list getActiveConfigVersion asked for is answered.
getActiveConfigVersionSettled(c, r) ==
  /\ Answered(c, "getActiveConfigVersion.then")
  /\ Finish(c, r, getActiveConfigVersionThen(requestThen(r)))
  /\ UNCHANGED <<ctor, client>>

-----------------------------------------------------------------------------
(* The operations whose config version number defaults to the active one *)

\* The request an operation issues in the .then of configVersionNumberPromise.
dependentRequest(cl, op, args, n) ==
  CASE op = "cloneConfigVersion" ->
         Convenience(cl, "PUT", VersionUrl(cl, args[1], n) \o "/clone", Undefined)
    [] op = "getMainVcl" -> getAllVcl(cl, args[1], n)
    [] op = "deleteVcl" ->
         Convenience(cl, "DELETE",
           VersionUrl(cl, args[1], n) \o "/vcl/" \o JsToString(args[2]), Undefined)

\* configVersionNumberPromise without the default: the argument is used as it
\* is given.
configVersionNumberPromiseNoDefault(c, op, args, n) ==
  /\ Invoke(c, op, args)
  /\ Fire(c, dependentRequest(client, op, args, n), "dependent.then")
  /\ UNCHANGED <<ctor, client>>

\* configVersionNumber ? Promise.resolve(configVersionNumber)
\*   : self.getActiveConfigVersion(serviceId).then(...)
configVersionNumberPromise(c, op, args, n) ==
  /\ Invoke(c, op, args)
  /\ IF Truthy(n)
       THEN Fire(c, dependentRequest(client, op, args, n), "dependent.then")
       ELSE Fire(c, getConfigVersions(client, args[1]), "configVersionNumberPromise.then")
  /\ UNCHANGED <<ctor, client>>

\* cloneConfigVersion(serviceId, configVersionNumber)
cloneConfigVersion(c, serviceId, n) ==
  configVersionNumberPromise(c, "cloneConfigVersion", <<serviceId, n>>, n)

\* getMainVcl(serviceId, configVersionNumber)
getMainVcl(c, serviceId, n) ==
  configVersionNumberPromise(c, "getMainVcl", <<serviceId, n>>, n)

\* deleteVcl(serviceId, vclName, configVersionNumber)
deleteVcl(c, serviceId, vclName, n) ==
  configVersionNumberPromise(c, "deleteVcl", <<serviceId, vclName, n>>, n)

\* setMainVcl(serviceId, vclName, configVersionNumber)
setMainVcl(c, serviceId, vclName, n) ==
  /\ Invoke(c, "setMainVcl", <<serviceId, vclName, n>>)
  /\ IF Truthy(n)
       THEN Fire(c, setMainVclRequest(client, serviceId, vclName, n), "setMainVcl.put")
       ELSE Fire(c, getConfigVersions(client, serviceId), "setMainVcl.version")
  /\ UNCHANGED <<ctor, client>>

\* The version list asked for by the default of the config version number is
\* answered: the dependent request goes out, or the operation rejects.
configVersionNumberResolved(c, r) ==
  /\ Answered(c, "configVersionNumberPromise.then")
  /\ LET number == versionNumberThen(getActiveConfigVersionThen(requestThen(r)))
     IN  IF number.state = "rejected"
           THEN Finish(c, r, number)
           ELSE Chain(c, r,
                  dependentRequest(client, call[c].op, call[c].args, number.value),
                  "dependent.then")
  /\ UNCHANGED <<ctor, client>>

\* vclList.find(function(vcl){ return vcl.main; })
vclListFindMain(outcome) ==
  IF outcome.state = "rejected"
    THEN outcome
    ELSE IF outcome.value.type # "array"
           THEN Rejected(Err("TypeError", "vclList.find is not a function"))
           ELSE LET list == outcome.value.val
                    hits == {i \in 1..Len(list) : Truthy(Get(list[i], "main"))}
                IN  IF hits = {}
                      THEN Fulfilled(Undefined)
                      ELSE Fulfilled(list[CHOOSE i \in hits : \A j \in hits : i <= j])

\* The dependent request is answered.
dependentSettled(c, r) ==
  /\ Answered(c, "dependent.then")
  /\ IF call[c].op = "getMainVcl"
       THEN Finish(c, r, vclListFindMain(requestThen(r)))
       ELSE Finish(c, r, requestThen(r))
  /\ UNCHANGED <<ctor, client>>

\* The request of updateVcl.
updateRequest(cl, serviceId, n, vclName, vclContent) ==
  Convenience(cl, "PUT",
    VersionUrl(cl, serviceId, n) \o "/vcl/" \o JsToString(vclName),
    Obj([form |-> Obj([content |-> vclContent])]))

\* updateVcl(serviceId, configVersionNumber, vclName, vclContent, setVclToMain)
updateVcl(c, serviceId, n, vclName, vclContent, setVclToMain) ==
  /\ Invoke(c, "updateVcl", <<serviceId, n, vclName, vclContent, setVclToMain>>)
  /\ Fire(c, updateRequest(client, serviceId, n, vclName, vclContent), "updateVcl.then")
  /\ UNCHANGED <<ctor, client>>

\* The .then of updateVcl without its test of setVclToMain.
updateVclUpdatedIgnoresFlag(c, r) ==
  /\ Answered(c, "updateVcl.then")
  /\ Finish(c, r, requestThen(r))
  /\ UNCHANGED <<ctor, client>>

\* The PUT of updateVcl is answered: its .then runs.
updateVclUpdated(c, r) ==
  /\ Answered(c, "updateVcl.then")
  /\ LET a == call[c].args
         vclResponse == requestThen(r)
     IN  IF vclResponse.state = "rejected"
           THEN Finish(c, r, vclResponse)
           ELSE IF Truthy(a[5])
                  THEN setMainVclChain(c, r, a[1], a[3], a[2])
                  ELSE Finish(c, r, vclResponse)
  /\ UNCHANGED <<ctor, client>>

-----------------------------------------------------------------------------

Next ==
  \/ \E withNew \in BOOLEAN, apiKey \in ApiKeys : Construct(withNew, apiKey)
  \/ /\ pc[1] = "idle"
     /\ \E method \in Methods, url \in Urls, options \in Options :
          request(1, method, url, options)
  \/ \E r \in Responses : requestSettled(1, r)
  \/ /\ pc[1] = "idle"
     /\ \E url \in Urls, softPurge \in SoftPurges : purge(1, url, softPurge)
  \/ /\ pc[1] = "idle"
     /\ \E serviceId \in ServiceIds, key \in SurrogateKeys, softPurge \in SoftPurges :
          purgeKey(1, serviceId, key, softPurge)
  \/ /\ pc[1] = "idle"
     /\ \E serviceId \in ServiceIds, n \in VersionNumbers, vclName \in VclNames,
           vclContent \in VclContents, setVclToMain \in Flags :
          uploadNewVcl(1, serviceId, n, vclName, vclContent, setVclToMain)
  \/ \E r \in Responses : uploadNewVclValidName(1, r)
  \/ \E r \in Responses : uploadNewVclUploaded(1, r)
  \/ \E r \in Responses : setMainVclVersion(1, r)
  \/ \E r \in Responses : setMainVclSettled(1, r)
  \/ /\ pc[1] = "idle"
     /\ \E op \in SingleRequestOperations, serviceId \in ServiceIds,
           n \in VersionNumbers, vclName \in VclNames, flag \in Flags :
          singleRequestOperation(1, op,
            singleRequestArgs(op, serviceId, n, vclName, flag))
  \/ /\ pc[1] = "idle"
     /\ \E op \in UnimplementedOperations : unimplementedEndpoint(1, op)
  \/ /\ pc[1] = "idle"
     /\ \E serviceId \in ServiceIds : getActiveConfigVersion(1, serviceId)
  \/ \E r \in Responses : getActiveConfigVersionSettled(1, r)
  \/ /\ pc[1] = "idle"
     /\ \E serviceId \in ServiceIds, n \in VersionNumbers :
          cloneConfigVersion(1, serviceId, n)
  \/ /\ pc[1] = "idle"
     /\ \E serviceId \in ServiceIds, n \in VersionNumbers : getMainVcl(1, serviceId, n)
  \/ /\ pc[1] = "idle"
     /\ \E serviceId \in ServiceIds, vclName \in VclNames, n \in VersionNumbers :
          deleteVcl(1, serviceId, vclName, n)
  \/ /\ pc[1] = "idle"
     /\ \E serviceId \in ServiceIds, vclName \in VclNames, n \in VersionNumbers :
          setMainVcl(1, serviceId, vclName, n)
  \/ \E r \in Responses : configVersionNumberResolved(1, r)
  \/ \E r \in Responses : dependentSettled(1, r)
  \/ /\ pc[1] = "idle"
     /\ \E serviceId \in ServiceIds, n \in VersionNumbers, vclName \in VclNames,
           vclContent \in VclContents, setVclToMain \in Flags :
          updateVcl(1, serviceId, n, vclName, vclContent, setVclToMain)
  \/ \E r \in Responses : updateVclUpdated(1, r)

Spec == Init /\ [][Next]_vars

-----------------------------------------------------------------------------
(* Two operations in progress on one client *)

\* The options object a caller passes to both of its calls of request().
SharedOptions == Obj([headers |-> Obj("X-Tag" :> Str("t"))])

ConcurrentUrls == {Str("/service/s1/version"), Str("https://a.io/x")}
ConcurrentVclNames == {Str("test"), Str("other")}
ConcurrentFlags == {Bool(FALSE), Bool(TRUE)}
ConcurrentResponses ==
  { Response("application/json", VclJson),
    [ok |-> FALSE, error |-> StatusCodeError(404)],
    [ok |-> FALSE, error |-> StatusCodeError(500)] }

\* request() keeping the options it computed in the object of the caller:
\* options.requestPromiseOptions = merge(requestPromiseOptions, ...).
optionsAfterRequestAliased(cl, method, url, options) ==
  IF options.type = "object"
    THEN Obj(merge(options.val,
           [softPurge |-> SoftPurgeOption(options),
            requestPromiseOptions |-> requestPromiseOptions(cl, method, url, options)]))
    ELSE options

\* The options object of the caller once request(method, url, options) has
\* run: request() assigns options.softPurge on the object it is given.
optionsAfterRequest(cl, method, url, options) ==
  IF options.type = "object"
    THEN Obj(merge(options.val, [softPurge |-> SoftPurgeOption(options)]))
    ELSE options

\* The other of the two calls.
Other(c) == CHOOSE d \in Calls : d # c

\* The shared options object as call c finds it when it is invoked: as the
\* caller made it, or as the call of request() invoked before c left it.
optionsObject(c) ==
  LET d == Other(c)
  IN  IF call[d].op = "request" /\ sent[d] # <<>>
        THEN optionsAfterRequest(client, call[d].args[1], call[d].args[2], SharedOptions)
        ELSE SharedOptions

\* A client constructed with a key, no operation invoked yet.
InitConcurrent ==
  /\ ctor = "constructed"
  /\ client = FastlyPromise(TRUE, Str("KEY")).value
  /\ pc = [c \in Calls |-> "idle"]
  /\ call = [c \in Calls |-> NoCall]
  /\ sent = [c \in Calls |-> <<>>]
  /\ outstanding = [c \in Calls |-> 0]
  /\ answers = [c \in Calls |-> <<>>]
  /\ result = [c \in Calls |-> NotCalled]

\* Both calls are invoked and answered in any order; the calls of request()
\* are given the one options object.
NextConcurrent ==
  \E c \in Calls :
    \/ /\ pc[c] = "idle"
       /\ \E url \in ConcurrentUrls : request(c, Str("GET"), url, optionsObject(c))
    \/ /\ pc[c] = "idle"
       /\ \E serviceId \in ServiceIds, vclName \in ConcurrentVclNames,
             vclContent \in VclContents, setVclToMain \in ConcurrentFlags :
            uploadNewVcl(c, serviceId, Num(3), vclName, vclContent, setVclToMain)
    \/ \E r \in ConcurrentResponses : requestSettled(c, r)
    \/ \E r \in ConcurrentResponses : uploadNewVclValidName(c, r)
    \/ \E r \in ConcurrentResponses : uploadNewVclUploaded(c, r)
    \/ \E r \in ConcurrentResponses : setMainVclSettled(c, r)

SpecConcurrent == InitConcurrent /\ [][NextConcurrent]_vars

-----------------------------------------------------------------------------
(* Two calls of uploadNewVcl against one server *)

\* Call d has uploaded a VCL file: its POST was answered 2xx.
Uploaded(d) ==
  /\ call[d].op = "uploadNewVcl"
  /\ Len(answers[d]) >= 2
  /\ answers[d][2].ok

\* The server has a VCL file of that name in the config version: none to
\* begin with, then those uploaded.
VclExists(vclName) ==
  \E d \in Calls : Uploaded(d) /\ Get(Get(sent[d][2], "form"), "name") = vclName

\* The answer of the server to the outstanding request of call c of
\* uploadNewVcl, from the VCL files it has at that moment: 404 for the GET
\* and the PUT of a file it does not have, 409 for the POST of a name it has.
ServerAnswer(c) ==
  LET exists == VclExists(call[c].args[3])
      method == Get(sent[c][Len(sent[c])], "method")
  IN  IF method = Str("POST")
        THEN IF exists
               THEN [ok |-> FALSE, error |-> StatusCodeError(409)]
               ELSE Response("application/json", VclJson)
        ELSE IF exists
               THEN Response("application/json", VclJson)
               ELSE [ok |-> FALSE, error |-> StatusCodeError(404)]

\* Both calls are invoked and the server answers their requests one at a
\* time, in any order.
NextRace ==
  \E c \in Calls :
    \/ /\ pc[c] = "idle"
       /\ \E serviceId \in ServiceIds, vclName \in ConcurrentVclNames,
             vclContent \in VclContents, setVclToMain \in ConcurrentFlags :
            uploadNewVcl(c, serviceId, Num(3), vclName, vclContent, setVclToMain)
    \/ /\ pc[c] = "uploadNewVcl.validName"
       /\ uploadNewVclValidName(c, ServerAnswer(c))
    \/ /\ pc[c] = "uploadNewVcl.upload"
       /\ uploadNewVclUploaded(c, ServerAnswer(c))
    \/ /\ pc[c] = "setMainVcl.put"
       /\ setMainVclSettled(c, ServerAnswer(c))

SpecRace == InitConcurrent /\ [][NextRace]_vars

-----------------------------------------------------------------------------
(* The vocabulary of the properties *)

FastlyEndpoint == "https://api.fastly.com"

StartsWith(s, p) == Len(s) >= Len(p) /\ SubSeq(s, 1, Len(p)) = p

IsAbsolute(url) == StartsWith(url, "http://") \/ StartsWith(url, "https://")

\* The position of the first character of s that is in chars, Len(s) + 1 if
\* there is none.
FirstOf(s, chars) ==
  LET I == {i \in 1..Len(s) : SubSeq(s, i, i) \in chars}
  IN  IF I = {} THEN Len(s) + 1 ELSE CHOOSE i \in I : \A j \in I : i <= j

\* The host of an absolute http(s) URL: the authority without its userinfo
\* and its port.
HostOf(url) ==
  LET rest == SubSeq(url, FirstOf(url, {":"}) + 3, Len(url))
      authority == SubSeq(rest, 1, FirstOf(rest, {"/", "?", "#"}) - 1)
      ats == {i \in 1..Len(authority) : SubSeq(authority, i, i) = "@"}
      from == IF ats = {} THEN 1 ELSE (CHOOSE i \in ats : \A j \in ats : j <= i) + 1
      hostport == SubSeq(authority, from, Len(authority))
  IN  SubSeq(hostport, 1, FirstOf(hostport, {":"}) - 1)

Missing(v) == v = Undefined \/ v = Str("")

\* Call c is a call of request() that reached the transport.
RequestSent(c) == call[c].op = "request" /\ sent[c] # <<>>

UrlArg(c) == call[c].args[2].val
OptionsArg(c) == call[c].args[3]

\* The headers of the i-th request call c handed to the transport.
SentHeaders(c, i) == Get(sent[c][i], "headers").val

\* options.headers of a call of request(), empty when there is none.
CallerHeaderMap(c) ==
  IF Get(OptionsArg(c), "headers").type = "object"
    THEN Get(OptionsArg(c), "headers").val
    ELSE EmptyMap

\* options.requestPromiseOptions of a call of request(), empty when there is
\* none.
OverrideMap(c) ==
  IF Get(OptionsArg(c), "requestPromiseOptions").type = "object"
    THEN Get(OptionsArg(c), "requestPromiseOptions").val
    ELSE EmptyMap

\* The URL a call of request() resolves its url argument to.
Resolved(c) ==
  IF IsAbsolute(UrlArg(c)) THEN UrlArg(c) ELSE FastlyEndpoint \o UrlArg(c)

-----------------------------------------------------------------------------
(* request(): credentials *)

\* C1: a call of request() with an absolute URL whose host is not
\* api.fastly.com sends no Fastly-Key header carrying the client's API key,
\* whatever the options and also for a URL that only begins with the
\* characters of the endpoint.
C1_KeyNeverSentToThirdParty ==
  \A c \in Calls :
    ( /\ RequestSent(c)
      /\ Truthy(client.apiKey)
      /\ IsAbsolute(UrlArg(c))
      /\ HostOf(UrlArg(c)) # "api.fastly.com" )
    => ~ ( /\ "Fastly-Key" \in DOMAIN SentHeaders(c, 1)
           /\ SentHeaders(c, 1)["Fastly-Key"] = client.apiKey )

\* C2 as stated: with any options, requestPromiseOptions included, the
\* Fastly-Key header is on the sent request exactly when the resolved URL
\* starts with the endpoint.
C2_KeyIffEndpointPrefixAnyOptions ==
  \A c \in Calls :
    RequestSent(c) =>
      ( "Fastly-Key" \in DOMAIN SentHeaders(c, 1)
          <=> StartsWith(Resolved(c), FastlyEndpoint) )

\* C2 as amended: when options.requestPromiseOptions has no headers field,
\* the Fastly-Key header is on the sent request exactly when the URL resolved
\* from the url argument starts with the endpoint, also when options.headers
\* has a Fastly-Key entry.
C2_KeyIffEndpointPrefix ==
  \A c \in Calls :
    (RequestSent(c) /\ "headers" \notin DOMAIN OverrideMap(c)) =>
      ( "Fastly-Key" \in DOMAIN SentHeaders(c, 1)
          <=> StartsWith(Resolved(c), FastlyEndpoint) )

\* A request to a third-party URL whose caller supplied a Fastly-Key header
\* went out without it.
C2_Witness ==
  /\ RequestSent(1)
  /\ "headers" \notin DOMAIN OverrideMap(1)
  /\ "Fastly-Key" \in DOMAIN CallerHeaderMap(1)
  /\ ~StartsWith(Resolved(1), FastlyEndpoint)
  /\ "Fastly-Key" \notin DOMAIN SentHeaders(1, 1)

-----------------------------------------------------------------------------
(* uploadNewVcl: the name check *)

\* Call c is a call of uploadNewVcl whose getVcl lookup has been answered.
LookupAnswered(c) == call[c].op = "uploadNewVcl" /\ Len(answers[c]) >= 1

\* The status of a failed answer, 0 for a network error, which has none.
StatusOf(r) == IF "statusCode" \in DOMAIN r.error THEN r.error.statusCode ELSE 0

\* The lookup of call c failed with HTTP 404.
Lookup404(c) ==
  LookupAnswered(c) /\ ~answers[c][1].ok /\ StatusOf(answers[c][1]) = 404

\* The lookup of call c succeeded: a 2xx answer that request() could decode.
LookupSucceeded(c) ==
  /\ LookupAnswered(c)
  /\ answers[c][1].ok
  /\ ( Get(Obj(answers[c][1].headers), "content-type") = Str("application/json")
         => answers[c][1].body \in JsonTexts )

NameConflict(vclName) ==
  Err("Error", "Error: " \o vclName \o " VCL file already exists.")

\* The positions of the upload POSTs among the requests of call c.
UploadPosts(c) ==
  {i \in 1..Len(sent[c]) : Get(sent[c][i], "method") = Str("POST")}

VclCollection(serviceId, n) ==
  FastlyEndpoint \o "/service/" \o JsToString(serviceId) \o "/version/"
    \o JsToString(n) \o "/vcl"

\* C3: when the getVcl lookup of uploadNewVcl fails with a status other than
\* 404, or with a network error, uploadNewVcl rejects with that very error and
\* issues no POST.
C3_LookupErrorPropagates ==
  \A c \in Calls :
    (LookupAnswered(c) /\ ~answers[c][1].ok /\ StatusOf(answers[c][1]) # 404) =>
      /\ result[c] = Rejected(answers[c][1].error)
      /\ UploadPosts(c) = {}

\* C4: uploadNewVcl first issues the getVcl lookup of the name; the upload
\* POST to /service/{id}/version/{n}/vcl with form {name, content} is its
\* second request and is issued exactly when that lookup has been answered
\* with HTTP 404, never before the answer and never after another answer.
C4_PostIffLookup404 ==
  \A c \in Calls :
    call[c].op = "uploadNewVcl" =>
      LET a == call[c].args
      IN  /\ Len(sent[c]) >= 1
          /\ Get(sent[c][1], "method") = Str("GET")
          /\ Get(sent[c][1], "uri") =
               Str(VclCollection(a[1], a[2]) \o "/" \o JsToString(a[3]))
          /\ UploadPosts(c) = IF Lookup404(c) THEN {2} ELSE {}
          /\ Lookup404(c) =>
               /\ Get(sent[c][2], "uri") = Str(VclCollection(a[1], a[2]))
               /\ Get(sent[c][2], "form") = Obj([name |-> a[3], content |-> a[4]])

\* The lookup was answered with 404 and the upload POST went out.
C4_Witness ==
  /\ Lookup404(1)
  /\ Len(sent[1]) = 2
  /\ Get(sent[1][2], "method") = Str("POST")

\* C5: when the getVcl lookup of uploadNewVcl succeeds, uploadNewVcl rejects
\* with the name-conflict error it builds itself and has issued no request but
\* the lookup, also when setVclToMain is true.
C5_NameConflict ==
  \A c \in Calls :
    LookupSucceeded(c) =>
      /\ result[c] = Rejected(NameConflict(JsToString(call[c].args[3])))
      /\ Len(sent[c]) = 1
      /\ outstanding[c] = 0

\* A lookup succeeded for an uploadNewVcl called with setVclToMain true, and
\* the call is rejected.
C5_Witness ==
  /\ LookupSucceeded(1)
  /\ call[1].args[5] = Bool(TRUE)
  /\ result[1].state = "rejected"

-----------------------------------------------------------------------------
(* Construction and the validation of request() *)

\* C6: no client is ever constructed with an omitted or empty API key,
\* whether the constructor is called with new or as a plain function.
C6_NoClientWithoutKey == ctor = "constructed" => ~Missing(client.apiKey)

\* C7: a call of request() with an empty or missing method or url throws the
\* missing-parameters error and hands nothing to the transport.
C7_MissingParametersThrow ==
  \A c \in Calls :
    ( /\ call[c].op = "request"
      /\ Missing(call[c].args[1]) \/ Missing(call[c].args[2]) )
    => /\ result[c] = Threw(Err("Error", "Missing required request parameters."))
       /\ sent[c] = <<>>
       /\ outstanding[c] = 0

\* request() was called with a method and an empty url, and threw.
C7_Witness ==
  /\ call[1].op = "request"
  /\ ~Missing(call[1].args[1])
  /\ call[1].args[2] = Str("")
  /\ result[1].state = "threw"

-----------------------------------------------------------------------------
(* request(): URL, headers, overrides *)

\* C8: unless requestPromiseOptions overrides uri, the URL of the sent request
\* is endpoint + url for a url that starts with neither http:// nor https://,
\* and url unchanged for one that does.
C8_ResolvedUrl ==
  \A c \in Calls :
    (RequestSent(c) /\ "uri" \notin DOMAIN OverrideMap(c)) =>
      Get(sent[c][1], "uri") =
        Str(IF IsAbsolute(UrlArg(c)) THEN UrlArg(c) ELSE FastlyEndpoint \o UrlArg(c))

\* A relative url was sent to endpoint + url.
C8_Witness ==
  /\ RequestSent(1)
  /\ ~IsAbsolute(UrlArg(1))
  /\ Get(sent[1][1], "uri") = Str(FastlyEndpoint \o UrlArg(1))

\* The softPurge a call of request(), purge() or purgeKey() was given.
SoftPurgeGiven(c) ==
  CASE call[c].op = "request" -> Get(OptionsArg(c), "softPurge")
    [] call[c].op = "purge" -> call[c].args[2]
    [] call[c].op = "purgeKey" -> call[c].args[3]

\* The headers the caller of call c supplied in options.headers.
HeadersGiven(c) == IF call[c].op = "request" THEN CallerHeaderMap(c) ELSE EmptyMap

\* Call c handed a request to the transport whose header mapping is the one
\* request() computed.
ComputedHeadersSent(c) ==
  /\ call[c].op \in {"request", "purge", "purgeKey"}
  /\ sent[c] # <<>>
  /\ call[c].op = "request" => "headers" \notin DOMAIN OverrideMap(c)

\* C9: for request(), purge() and purgeKey(), the headers sent beyond
\* Fastly-Key and the caller's own headers are Fastly-Soft-Purge alone, with
\* value 1, when softPurge is true, and none when softPurge is false or absent.
C9_SoftPurgeHeader ==
  \A c \in Calls :
    ComputedHeadersSent(c) =>
      LET h == SentHeaders(c, 1)
          beyond == DOMAIN h \ ({"Fastly-Key"} \cup DOMAIN HeadersGiven(c))
          soft == /\ SoftPurgeGiven(c) = Bool(TRUE)
                  /\ "Fastly-Soft-Purge" \notin DOMAIN HeadersGiven(c)
      IN  /\ beyond = IF soft THEN {"Fastly-Soft-Purge"} ELSE {}
          /\ soft => h["Fastly-Soft-Purge"] = Num(1)

\* purge() was called with softPurge true and sent Fastly-Soft-Purge: 1.
C9_Witness ==
  /\ call[1].op = "purge"
  /\ call[1].args[2] = Bool(TRUE)
  /\ sent[1] # <<>>
  /\ "Fastly-Soft-Purge" \in DOMAIN SentHeaders(1, 1)
  /\ SentHeaders(1, 1)["Fastly-Soft-Purge"] = Num(1)

\* Every field of options.requestPromiseOptions is the field of that name in
\* the sent request.
OverridesApplied(c) ==
  \A f \in DOMAIN OverrideMap(c) : Get(sent[c][1], f) = OverrideMap(c)[f]

\* C10 as stated: a Fastly-Key or Fastly-Soft-Purge entry of options.headers
\* is sent with the caller's value, and every field of requestPromiseOptions
\* replaces the computed field of its name.
C10_CallerValuesSent ==
  \A c \in Calls :
    RequestSent(c) =>
      /\ "headers" \notin DOMAIN OverrideMap(c) =>
           \A k \in {"Fastly-Key", "Fastly-Soft-Purge"} \cap DOMAIN CallerHeaderMap(c) :
             /\ k \in DOMAIN SentHeaders(c, 1)
             /\ SentHeaders(c, 1)[k] = CallerHeaderMap(c)[k]
      /\ OverridesApplied(c)

\* C10 as amended: the same, except that a Fastly-Key entry of options.headers
\* is removed, like the computed one, when the resolved URL does not start
\* with the endpoint.
C10_CallerValuesSentUnlessStripped ==
  \A c \in Calls :
    RequestSent(c) =>
      /\ "headers" \notin DOMAIN OverrideMap(c) =>
           \A k \in {"Fastly-Key", "Fastly-Soft-Purge"} \cap DOMAIN CallerHeaderMap(c) :
             IF k = "Fastly-Key" /\ ~StartsWith(Resolved(c), FastlyEndpoint)
               THEN k \notin DOMAIN SentHeaders(c, 1)
               ELSE /\ k \in DOMAIN SentHeaders(c, 1)
                    /\ SentHeaders(c, 1)[k] = CallerHeaderMap(c)[k]
      /\ OverridesApplied(c)

\* softPurge was true and the caller's own Fastly-Soft-Purge value went out.
C10_Witness ==
  /\ RequestSent(1)
  /\ "headers" \notin DOMAIN OverrideMap(1)
  /\ Get(OptionsArg(1), "softPurge") = Bool(TRUE)
  /\ "Fastly-Soft-Purge" \in DOMAIN CallerHeaderMap(1)
  /\ SentHeaders(1, 1)["Fastly-Soft-Purge"] = CallerHeaderMap(1)["Fastly-Soft-Purge"]

-----------------------------------------------------------------------------
(* request(): the response *)

\* Call c is a call of request() whose request the transport has settled.
RequestAnswered(c) == call[c].op = "request" /\ Len(answers[c]) = 1

\* The content-type header of answer r is exactly application/json.
ExactlyJson(r) ==
  /\ "content-type" \in DOMAIN r.headers
  /\ r.headers["content-type"] = Str("application/json")

\* C11: a call of request() answered with a 2xx response resolves with the
\* JSON-parsed body when the content-type header is exactly application/json
\* (a body that is not JSON rejects with the error of the parser), and
\* resolves with the raw body string for every other content type, one with a
\* charset parameter included, and for a response without a content-type.
C11_JsonIffExactContentType ==
  \A c \in Calls :
    (RequestAnswered(c) /\ answers[c][1].ok) =>
      LET r == answers[c][1]
      IN  /\ (ExactlyJson(r) /\ r.body \in JsonTexts)
                => result[c] = Fulfilled(JSONParse(r.body))
          /\ (ExactlyJson(r) /\ r.body \notin JsonTexts)
                => result[c].state = "rejected"
          /\ ~ExactlyJson(r) => result[c] = Fulfilled(Str(r.body))
          /\ result[c] = Fulfilled(Str(r.body)) => ~ExactlyJson(r)

\* A JSON body sent as application/json with a charset came back to the
\* caller as the raw string.
C11_Witness ==
  /\ RequestAnswered(1)
  /\ answers[1][1] = Response("application/json; charset=utf-8", VclJson)
  /\ result[1] = Fulfilled(Str(VclJson))

-----------------------------------------------------------------------------
(* Errors of the transport *)

\* The operations that return the promise of one call of request().
SingleCallOperations == {"request", "purge", "purgeKey"} \cup SingleRequestOperations

\* C12: when the transport fails the request of request() or of an operation
\* that is one call of request(), with a network error or a non-2xx status,
\* the operation rejects with the very error of the transport, statusCode
\* included, and the request is not issued again.
C12_TransportErrorUnchanged ==
  \A c \in Calls :
    ( /\ call[c].op \in SingleCallOperations
      /\ Len(answers[c]) >= 1
      /\ ~answers[c][1].ok )
    => /\ result[c] = Rejected(answers[c][1].error)
       /\ Len(sent[c]) = 1
       /\ outstanding[c] = 0
       /\ pc[c] = "done"

\* getVcl was answered 404 and its caller holds the StatusCodeError with
\* statusCode 404.
C12_Witness ==
  /\ call[1].op = "getVcl"
  /\ Len(answers[1]) = 1
  /\ ~answers[1][1].ok
  /\ result[1].state = "rejected"
  /\ "statusCode" \in DOMAIN result[1].reason
  /\ result[1].reason.statusCode = 404

-----------------------------------------------------------------------------
(* purge() *)

\* The url argument of a call of purge() starts with http:// or https://.
PurgeUrlAbsolute(c) ==
  call[c].args[1].type = "string" /\ IsAbsolute(call[c].args[1].val)

\* C13: purge(url, softPurge) with a url that does not start with http:// or
\* https:// throws its error and hands nothing to the transport; with an
\* absolute url it hands the transport exactly one request, of method PURGE,
\* to that url unchanged.
C13_PurgeAbsoluteOnly ==
  \A c \in Calls :
    call[c].op = "purge" =>
      IF PurgeUrlAbsolute(c)
        THEN /\ Len(sent[c]) = 1
             /\ Get(sent[c][1], "method") = Str("PURGE")
             /\ Get(sent[c][1], "uri") = call[c].args[1]
        ELSE /\ sent[c] = <<>>
             /\ result[c] = Threw(Err("Error",
                  "Standard purge requests should be absolute urls."))

\* purge() of a relative URL threw and sent nothing.
C13_Witness ==
  /\ call[1].op = "purge"
  /\ call[1].args[1] = Str("/service/s1/version")
  /\ result[1].state = "threw"
  /\ sent[1] = <<>>

-----------------------------------------------------------------------------
(* getActiveConfigVersion *)

\* GET of url with the client's key and nothing else, as an operation on the
\* Fastly API sends it.
ApiRequest(method, url) ==
  Obj([method |-> Str(method), uri |-> Str(url),
       headers |-> Obj("Fastly-Key" :> client.apiKey),
       resolveWithFullResponse |-> Bool(TRUE)])

\* The URL of the version list of service serviceId.
VersionListUrl(serviceId) ==
  FastlyEndpoint \o "/service/" \o serviceId.val \o "/version"

\* The first element of list whose active flag is true, undefined if none.
RECURSIVE FirstActive(_)
FirstActive(list) ==
  IF list = <<>>
    THEN Undefined
    ELSE IF Get(Head(list), "active") = Bool(TRUE)
           THEN Head(list)
           ELSE FirstActive(Tail(list))

\* Answer r carries a JSON list.
ListAnswer(r) ==
  /\ r.ok
  /\ ExactlyJson(r)
  /\ r.body \in JsonTexts
  /\ JSONParse(r.body).type = "array"

\* C14: getActiveConfigVersion(serviceId) sends one request, the GET of
\* /service/{id}/version, and when that is answered with a list it resolves
\* with the first element whose active flag is true, or with undefined, not a
\* rejection, when no element is active or the list is empty.
C14_FirstActiveOrUndefined ==
  \A c \in Calls :
    call[c].op = "getActiveConfigVersion" =>
      /\ sent[c] = <<ApiRequest("GET", VersionListUrl(call[c].args[1]))>>
      /\ (Len(answers[c]) = 1 /\ ListAnswer(answers[c][1])) =>
            result[c] = Fulfilled(FirstActive(JSONParse(answers[c][1].body).val))

\* A list with two active versions was answered and the caller got the first.
C14_Witness ==
  /\ call[1].op = "getActiveConfigVersion"
  /\ Len(answers[1]) = 1
  /\ answers[1][1] = Response("application/json", TwoActiveJson)
  /\ result[1] = Fulfilled(Obj([number |-> Num(4), active |-> Bool(TRUE)]))

\* An empty list was answered and the caller got undefined.
C14_WitnessEmpty ==
  /\ call[1].op = "getActiveConfigVersion"
  /\ Len(answers[1]) = 1
  /\ answers[1][1] = Response("application/json", EmptyListJson)
  /\ result[1] = Fulfilled(Undefined)

-----------------------------------------------------------------------------
(* cloneConfigVersion *)

\* Call c is a call of op without a config version number.
WithoutVersion(c, op, position) ==
  call[c].op = op /\ call[c].args[position] = Undefined

\* The first answer of call c is a version list with an active version.
ActiveVersionFound(c) ==
  /\ Len(answers[c]) >= 1
  /\ ListAnswer(answers[c][1])
  /\ FirstActive(JSONParse(answers[c][1].body).val) # Undefined

\* The number of that active version, as it stands in a URL.
ActiveNumber(c) ==
  JsToString(Get(FirstActive(JSONParse(answers[c][1].body).val), "number"))

\* The URL of config version number of service serviceId.
VersionUrlOf(serviceId, number) ==
  FastlyEndpoint \o "/service/" \o serviceId.val \o "/version/" \o number

\* C15: cloneConfigVersion(serviceId) without a version number sends the GET
\* of the version list first; the PUT of /service/{id}/version/{n}/clone, n
\* the number of the active version of the answered list, is its second and
\* last request and goes out only once the list has been answered, so that
\* the two are never outstanding together.
C15_CloneListsThenClones ==
  \A c \in Calls :
    WithoutVersion(c, "cloneConfigVersion", 2) =>
      /\ Len(sent[c]) \in {1, 2}
      /\ sent[c][1] = ApiRequest("GET", VersionListUrl(call[c].args[1]))
      /\ outstanding[c] <= 1
      /\ Len(sent[c]) <= Len(answers[c]) + outstanding[c]
      /\ Len(sent[c]) = 2 <=> ActiveVersionFound(c)
      /\ Len(sent[c]) = 2 =>
           sent[c][2] = ApiRequest("PUT",
             VersionUrlOf(call[c].args[1], ActiveNumber(c)) \o "/clone")

\* The list was answered with version 2 active, the clone of version 2 was
\* requested and answered.
C15_Witness ==
  /\ WithoutVersion(1, "cloneConfigVersion", 2)
  /\ Len(answers[1]) = 2
  /\ answers[1][1] = Response("application/json", VersionsJson)
  /\ Get(sent[1][2], "uri") = Str("https://api.fastly.com/service/s1/version/2/clone")
  /\ pc[1] = "done"

-----------------------------------------------------------------------------
(* The number of requests of an operation *)

\* The requests setMainVcl makes for config version number n: the PUT, and
\* before it the version list when n is not given.
SetMainVclCalls(n) == IF Truthy(n) THEN 1 ELSE 2

\* The most requests call c can make, by its operation and its arguments.
MaxCalls(c) ==
  LET op == call[c].op
      a == call[c].args
  IN  CASE op \in {"none"} \cup UnimplementedOperations -> 0
        [] op \in SingleCallOperations \cup {"getActiveConfigVersion"} -> 1
        [] op \in {"cloneConfigVersion", "getMainVcl"} -> SetMainVclCalls(a[2])
        [] op \in {"setMainVcl", "deleteVcl"} -> SetMainVclCalls(a[3])
        [] op = "updateVcl" ->
             1 + (IF Truthy(a[5]) THEN SetMainVclCalls(a[2]) ELSE 0)
        [] op = "uploadNewVcl" ->
             2 + (IF Truthy(a[5]) THEN SetMainVclCalls(a[2]) ELSE 0)

\* C16 as stated: every operation, with every argument combination, hands the
\* transport at most two requests and never has more than one outstanding.
C16_AtMostTwoCalls ==
  \A c \in Calls : Len(sent[c]) <= 2 /\ outstanding[c] <= 1

\* C16 as amended: no operation ever has more than one request outstanding,
\* and its requests follow one another; an operation that is one call of
\* request() makes one request, an operation with a default config version
\* number at most two, updateVcl at most three (its PUT, then the one or two of
\* setMainVcl) and uploadNewVcl at most four (the lookup, the POST, then the
\* one or two of setMainVcl).
C16_SequentialCallBounds ==
  \A c \in Calls :
    /\ outstanding[c] <= 1
    /\ Len(sent[c]) = Len(answers[c]) + outstanding[c]
    /\ Len(sent[c]) <= MaxCalls(c)
    /\ MaxCalls(c) <= 4

\* uploadNewVcl without a config version number and with setVclToMain made
\* four requests.
C16_Witness ==
  /\ call[1].op = "uploadNewVcl"
  /\ Len(sent[1]) = 4
  /\ Len(answers[1]) = 4
  /\ pc[1] = "done"

-----------------------------------------------------------------------------
(* The default of the config version number *)

\* Call c is a call, without a config version number, of one of the four
\* operations that take the active version by default.
DefaultsVersion(c) ==
  \/ WithoutVersion(c, "cloneConfigVersion", 2)
  \/ WithoutVersion(c, "getMainVcl", 2)
  \/ WithoutVersion(c, "setMainVcl", 3)
  \/ WithoutVersion(c, "deleteVcl", 3)

\* The request call c makes for the config version number in a URL.
DependentOf(c, number) ==
  LET a == call[c].args
      version == VersionUrlOf(a[1], number)
  IN  CASE call[c].op = "cloneConfigVersion" -> ApiRequest("PUT", version \o "/clone")
        [] call[c].op = "getMainVcl" -> ApiRequest("GET", version \o "/vcl")
        [] call[c].op = "setMainVcl" ->
             ApiRequest("PUT", version \o "/vcl/" \o a[2].val \o "/main")
        [] call[c].op = "deleteVcl" ->
             ApiRequest("DELETE", version \o "/vcl/" \o a[2].val)

\* C17: when cloneConfigVersion, getMainVcl, setMainVcl or deleteVcl is called
\* without a version number and the version list is not obtained (the GET is
\* rejected) or has no active version, the operation rejects and the version
\* list stays its only request; a dependent request is only ever made with
\* the number of the active version of the answered list in its URL.
C17_FailedDefaultAborts ==
  \A c \in Calls :
    DefaultsVersion(c) =>
      /\ (Len(answers[c]) >= 1 /\ ~ActiveVersionFound(c)) =>
            /\ result[c].state = "rejected"
            /\ ~answers[c][1].ok => result[c].reason = answers[c][1].error
            /\ Len(sent[c]) = 1
            /\ pc[c] = "done"
      /\ Len(sent[c]) <= 2
      /\ Len(sent[c]) = 2 =>
            /\ ActiveVersionFound(c)
            /\ sent[c][2] = DependentOf(c, ActiveNumber(c))

\* deleteVcl without a version number met a list without an active version:
\* it rejected and no DELETE went out.
C17_Witness ==
  /\ WithoutVersion(1, "deleteVcl", 3)
  /\ Len(answers[1]) = 1
  /\ answers[1][1] = Response("application/json", NoActiveJson)
  /\ result[1].state = "rejected"
  /\ Len(sent[1]) = 1
  /\ pc[1] = "done"

-----------------------------------------------------------------------------
(* uploadNewVcl and updateVcl: setVclToMain *)

\* The position of the content request among the requests of call c: the POST
\* of uploadNewVcl follows the lookup, the PUT of updateVcl comes first.
ContentRequest(c) == IF call[c].op = "uploadNewVcl" THEN 2 ELSE 1

\* Answer r is a 2xx answer that request() resolves with.
Succeeded(r) == r.ok /\ (ExactlyJson(r) => r.body \in JsonTexts)

\* The content request of call c of uploadNewVcl or updateVcl was made and
\* succeeded.
ContentSucceeded(c) ==
  /\ call[c].op \in {"uploadNewVcl", "updateVcl"}
  /\ Len(sent[c]) >= ContentRequest(c)
  /\ Len(answers[c]) >= ContentRequest(c)
  /\ Succeeded(answers[c][ContentRequest(c)])

\* C18: for uploadNewVcl and updateVcl whose upload or update succeeded.  With
\* setVclToMain true the operation stays pending and goes on into setMainVcl;
\* for version number n the next request is the PUT of
\* /service/{id}/version/{n}/vcl/{name}/main, and the operation settles with
\* the outcome of that PUT.  With setVclToMain false or absent the content
\* request stays the last one and the operation resolves with its response.
C18_SetMainChained ==
  \A c \in Calls :
    ContentSucceeded(c) =>
      LET a == call[c].args
          k == ContentRequest(c)
      IN  IF a[5] = Bool(TRUE)
            THEN /\ Len(sent[c]) > k
                 /\ Len(answers[c]) = k => result[c] = Pending
                 /\ Truthy(a[2]) =>
                      /\ Len(sent[c]) = k + 1
                      /\ sent[c][k + 1] = ApiRequest("PUT",
                           VersionUrlOf(a[1], JsToString(a[2]))
                             \o "/vcl/" \o a[3].val \o "/main")
                      /\ pc[c] = "done" =>
                           /\ Len(answers[c]) = k + 1
                           /\ result[c] = requestThen(answers[c][k + 1])
            ELSE /\ Len(sent[c]) = k
                 /\ pc[c] = "done"
                 /\ result[c] = requestThen(answers[c][k])

\* updateVcl of version 3 with setVclToMain: the update succeeded, the PUT of
\* .../version/3/vcl/test/main followed and its response is the result.
C18_Witness ==
  /\ ContentSucceeded(1)
  /\ call[1].op = "updateVcl"
  /\ call[1].args[5] = Bool(TRUE)
  /\ call[1].args[2] = Num(3)
  /\ Get(sent[1][2], "uri")
       = Str("https://api.fastly.com/service/s1/version/3/vcl/test/main")
  /\ Len(answers[1]) = 2
  /\ answers[1][2] = Response("application/json", VclJson)
  /\ result[1] = Fulfilled(JSONParse(VclJson))

-----------------------------------------------------------------------------
(* Two operations at a time *)

\* The request that request('GET', url, SharedOptions) makes when it is the
\* only operation in progress.
SharedRequestAlone(url) ==
  LET resolved == IF IsAbsolute(url) THEN url ELSE FastlyEndpoint \o url
      tag == "X-Tag" :> Str("t")
  IN  Obj([method |-> Str("GET"),
           uri |-> Str(resolved),
           headers |-> Obj(IF StartsWith(resolved, FastlyEndpoint)
                             THEN merge("Fastly-Key" :> client.apiKey, tag)
                             ELSE tag),
           resolveWithFullResponse |-> Bool(TRUE)])

\* The requests that uploadNewVcl with the arguments of call c and a config
\* version number makes when it is the only operation in progress and gets
\* the answers call c has got: the lookup, the POST after a 404, the PUT of
\* setMainVcl after a POST that succeeded.
UploadAlone(c) ==
  LET a == call[c].args
      collection == VersionUrlOf(a[1], JsToString(a[2])) \o "/vcl"
      lookup == ApiRequest("GET", collection \o "/" \o a[3].val)
      post == Obj(merge(ApiRequest("POST", collection).val,
                    "form" :> Obj([name |-> a[3], content |-> a[4]])))
      put == ApiRequest("PUT", collection \o "/" \o a[3].val \o "/main")
  IN  <<lookup>>
        \o (IF Lookup404(c) THEN <<post>> ELSE <<>>)
        \o (IF Lookup404(c) /\ Len(answers[c]) >= 2 /\ Succeeded(answers[c][2])
               /\ a[5] = Bool(TRUE)
              THEN <<put>> ELSE <<>>)

\* The requests of call c, had it run alone and got the same answers.
RequestsAlone(c) ==
  CASE call[c].op = "request" -> <<SharedRequestAlone(call[c].args[2].val)>>
    [] call[c].op = "uploadNewVcl" -> UploadAlone(c)
    [] OTHER -> <<>>

\* C19: while two operations are in progress on one client in any
\* interleaving, calls of request() that are given the same options object
\* and calls of uploadNewVcl, the apiKey and the endpoint of the client stay
\* what the constructor made them, and each operation hands the transport the
\* requests (method, URL, headers, form) it makes when it runs alone and gets
\* the same answers.
C19_NoSharedMutableState ==
  /\ client = [apiKey |-> Str("KEY"), endpoint |-> FastlyEndpoint]
  /\ \A c \in Calls : sent[c] = RequestsAlone(c)

\* Two calls of request() for different URLs with the one options object, the
\* second invoked after the first had assigned options.softPurge on it, and
\* the requests of both went out.
C19_Witness ==
  /\ call[1].op = "request"
  /\ call[2].op = "request"
  /\ call[1].args[3] = SharedOptions
  /\ call[2].args[3] # SharedOptions
  /\ call[1].args[2] # call[2].args[2]
  /\ Len(sent[1]) = 1
  /\ Len(sent[2]) = 1

-----------------------------------------------------------------------------
(* uploadNewVcl: two uploads of one name *)

\* Calls c and d are distinct calls of uploadNewVcl for the same service,
\* config version and name.
SameUpload(c, d) ==
  /\ c # d
  /\ call[c].op = "uploadNewVcl"
  /\ call[d].op = "uploadNewVcl"
  /\ SubSeq(call[c].args, 1, 3) = SubSeq(call[d].args, 1, 3)

\* C20: of two interleaved calls of uploadNewVcl for the same service, config
\* version and name, free to begin with, at most one makes the upload POST,
\* and once both have settled the other has failed with the 'VCL file already
\* exists' error.
C20_AtMostOneUploads ==
  \A c, d \in Calls :
    SameUpload(c, d) =>
      /\ ~(Len(sent[c]) >= 2 /\ Len(sent[d]) >= 2)
      /\ (pc[c] = "done" /\ pc[d] = "done") =>
            \/ result[c] = Rejected(NameConflict(call[c].args[3].val))
            \/ result[d] = Rejected(NameConflict(call[d].args[3].val))

-----------------------------------------------------------------------------
(* A config version number the caller supplies *)

\* The operations with an optional config version number.
DefaultingOperations == {"cloneConfigVersion", "getMainVcl", "setMainVcl", "deleteVcl"}

\* The config version number argument of call c of such an operation.
VersionArg(c) ==
  IF call[c].op \in {"cloneConfigVersion", "getMainVcl"}
    THEN call[c].args[2]
    ELSE call[c].args[3]

\* The requests of call c that are the GET of the version list.
VersionListLookups(c) ==
  {i \in 1..Len(sent[c]) :
     sent[c][i] = ApiRequest("GET", VersionListUrl(call[c].args[1]))}

\* C21: for cloneConfigVersion, getMainVcl, setMainVcl and deleteVcl, a call
\* that is given a config version number, whatever its value, makes no GET of
\* the version list and its one request has the given number in its URL; a
\* call without one makes the GET of the version list as its first request
\* and makes it once.
C21_SuppliedVersionUsed ==
  \A c \in Calls :
    (call[c].op \in DefaultingOperations /\ sent[c] # <<>>) =>
      IF VersionArg(c) # Undefined
        THEN /\ VersionListLookups(c) = {}
             /\ sent[c] = <<DependentOf(c, JsToString(VersionArg(c)))>>
        ELSE VersionListLookups(c) = {1}

-----------------------------------------------------------------------------
(* uploadNewVcl and updateVcl: a setMainVcl that fails *)

\* The content of the VCL file of call c on the server after the first i
\* requests of the call: what the last POST or PUT with a content that the
\* server answered 2xx left there, undefined before any and after a DELETE
\* answered 2xx.
RECURSIVE ServerContentAfter(_, _)
ServerContentAfter(c, i) ==
  IF i = 0
    THEN Undefined
    ELSE LET before == ServerContentAfter(c, i - 1)
             content == Get(Get(sent[c][i], "form"), "content")
         IN  IF i > Len(answers[c]) \/ ~answers[c][i].ok
               THEN before
               ELSE IF Get(sent[c][i], "method") = Str("DELETE")
                      THEN Undefined
                      ELSE IF content # Undefined THEN content ELSE before

\* Request i of call c belongs to setMainVcl: the GET of the version list or
\* the PUT of .../main.
SetMainVclRequest(c, i) ==
  LET a == call[c].args
  IN  \/ sent[c][i] = ApiRequest("GET", VersionListUrl(a[1]))
      \/ /\ Get(sent[c][i], "method") = Str("PUT")
         /\ \E number \in {"0", "1", "2", "3", "4", "5", "undefined"} :
              sent[c][i] = ApiRequest("PUT",
                VersionUrlOf(a[1], number) \o "/vcl/" \o a[3].val \o "/main")

\* Call c of uploadNewVcl or updateVcl with setVclToMain true has settled
\* after a content request that succeeded and a setMainVcl that did not: its
\* last request is not a PUT of .../main that succeeded.
SetMainVclFailed(c) ==
  /\ ContentSucceeded(c)
  /\ call[c].args[5] = Bool(TRUE)
  /\ pc[c] = "done"
  /\ Len(answers[c]) > ContentRequest(c)
  /\ ~ ( /\ Get(sent[c][Len(sent[c])], "method") = Str("PUT")
         /\ Succeeded(answers[c][Len(answers[c])]) )

\* C22: when the content request of updateVcl or uploadNewVcl with
\* setVclToMain true succeeded and the setMainVcl after it failed, the
\* operation is rejected, with the error of the transport when the transport
\* failed the last request; the only requests after the content request are
\* those of setMainVcl, none after the failure, and the content of the
\* content request is still the content of the VCL file on the server.
C22_NoRollback ==
  \A c \in Calls :
    SetMainVclFailed(c) =>
      LET k == ContentRequest(c)
          last == answers[c][Len(answers[c])]
      IN  /\ result[c].state = "rejected"
          /\ ~last.ok => result[c].reason = last.error
          /\ Len(sent[c]) = Len(answers[c])
          /\ Len(sent[c]) <= k + 2
          /\ \A i \in (k + 1)..Len(sent[c]) : SetMainVclRequest(c, i)
          /\ ServerContentAfter(c, Len(sent[c])) = call[c].args[4]

\* updateVcl of version 3 with setVclToMain: the update succeeded, the PUT of
\* .../main was answered 500, the caller holds that error and the new content
\* is on the server.
C22_Witness ==
  /\ SetMainVclFailed(1)
  /\ call[1].op = "updateVcl"
  /\ call[1].args[2] = Num(3)
  /\ Len(sent[1]) = 2
  /\ result[1] = Rejected(StatusCodeError(500))
  /\ ServerContentAfter(1, 2) = Str(VclText)

====
